---- MODULE Spec2Model ----
(***************************************************************************)
(* The voice webhook server of src/index.js: the in-memory conversation    *)
(* store and the /voice handler, cut at its two await points.  A delivery  *)
(* of the webhook runs in three synchronous segments of the event loop:    *)
(*   VoiceStart     lines 43-57, up to the await of the completion call    *)
(*   VoiceAfterLlm  lines 57-66 / 70-83, the completion call has settled   *)
(*   VoiceAfterSave lines 66-69 and 82-83, savePatientData has settled     *)
(* Segments of different deliveries interleave freely.                     *)
(***************************************************************************)
EXTENDS Integers, Sequences, FiniteSets, TLC

\* ---------------------------------------------------------------- bounds
\* Number of webhook deliveries the server receives in a run.
MaxTurns == 2
\* Number of /initiate-call requests the server receives in a run.
MaxInitiations == 2

\* ---------------------------------------------------------------- inputs
CallSids == {"CA1", "CA2"}
\* A CallSid that names a property every object inherits from
\* Object.prototype.
ObjectPrototypeKeys == {"constructor"}
\* req.body.SpeechResult: "" stands for a missing or empty transcription.
SpeechResults == {"", "ram"}
\* req.body.To
ToNumbers == {"+911", "+912"}

\* req.body.phoneNumber and req.body.ngrokUrl of /initiate-call: "" stands
\* for a missing or empty field.
PhoneNumbers == {"", "+911"}
NgrokUrls == {"", "https://asha.ngrok.io"}
\* process.env.TWILIO_PHONE_NUMBER
TwilioPhoneNumber == "+100"
\* What client.calls.create settles with: a call with its sid, or an error
\* with its message.
CreateOutcomes ==
    { [ok |-> TRUE, sid |-> "CA1", message |-> ""],
      [ok |-> FALSE, sid |-> "", message |-> "unreachable"] }

\* JavaScript's undefined, as read from a missing property.
Undefined == "undefined"

\* The empty object {}.
EmptyObject == [k \in {} |-> ""]

\* One-field and two-field objects.
Obj1(k, v) == [x \in {k} |-> v]
Obj2(k1, v1, k2, v2) == [x \in {k1, k2} |-> IF x = k1 THEN v1 ELSE v2]

\* What the completion call settles with: a rejection, or a message content.
\* A content is text that is no JSON, the JSON text null, or a JSON object
\* with the three keys of the output contract.
NoLlm == [kind |-> "none", responseText |-> "", extractedData |-> EmptyObject,
          isComplete |-> FALSE]

LlmFailure(k) == [kind |-> k, responseText |-> "", extractedData |-> EmptyObject,
                  isComplete |-> FALSE]

LlmObject(rt, ed, ic) == [kind |-> "object", responseText |-> rt,
                          extractedData |-> ed, isComplete |-> ic]

\* The outcomes of the completion call that the model draws from.
LlmOutcomes ==
    { LlmFailure("reject"), LlmFailure("garbage"), LlmFailure("null"),
      LlmObject("What is your name?", Obj1("full_name", "Ram"), FALSE),
      LlmObject("Where do you live?", Obj2("full_name", "Sita", "age", "30"), FALSE),
      LlmObject("Thank you.", Obj2("address", "Pune", "health_condition", "fever"), TRUE),
      LlmObject("Thank you.", Obj1("full_name", "Sita"), TRUE) }

\* ---------------------------------------------------------------- state
VARIABLES
    conversationState,  \* the store: call identifier -> {history, collectedData}
    turns,              \* the deliveries of /voice, by order of arrival
    dbCalls,            \* the pool.query invocations, in order
    initiations,        \* the requests to /initiate-call, by order of arrival
    twilioCalls         \* the client.calls.create invocations, in order

vars == <<conversationState, turns, dbCalls, initiations, twilioCalls>>

TurnIds == 1..MaxTurns
InitiationIds == 1..MaxInitiations

\* A request to /initiate-call that has not arrived yet.
IdleInitiation == [pc |-> "idle", phoneNumber |-> "", ngrokUrl |-> "",
                   status |-> 0, message |-> "", callSid |-> "", error |-> ""]

\* A delivery that has not arrived yet.
IdleTurn == [pc |-> "idle", CallSid |-> "", SpeechResult |-> "", To |-> "",
             request |-> <<>>, llm |-> NoLlm, saved |-> "none",
             error |-> "none", res |-> <<>>]

\* ---------------------------------------------------------------- helpers
\* obj[key] of JavaScript: undefined when the key is missing.
Get(obj, key) == IF key \in DOMAIN obj THEN obj[key] ELSE Undefined

\* Variant of ObjectAssign in which a key already set keeps its value.
ObjectAssignKeepsTarget(target, source) ==
    [k \in (DOMAIN target) \cup (DOMAIN source) |->
        IF k \in DOMAIN target THEN target[k] ELSE source[k]]

\* Variant of ObjectAssign that adds to a value already set instead of
\* overwriting it.
ObjectAssignAccumulates(target, source) ==
    [k \in (DOMAIN target) \cup (DOMAIN source) |->
        IF k \in DOMAIN source
        THEN (IF k \in DOMAIN target THEN target[k] \o source[k] ELSE source[k])
        ELSE target[k]]

\* Object.assign(target, source): shallow overwrite, key by key.
ObjectAssign(target, source) ==
    [k \in (DOMAIN target) \cup (DOMAIN source) |->
        IF k \in DOMAIN source THEN source[k] ELSE target[k]]

\* !conversationState[callSid] is false
HasEntry(store, callSid) == callSid \in DOMAIN store

\* conversationState[callSid] = { history: [], collectedData: {} }
NewEntry == [history |-> <<>>, collectedData |-> EmptyObject]

\* conversationState[callSid] = entry
PutEntry(store, callSid, entry) ==
    [c \in (DOMAIN store) \cup {callSid} |->
        IF c = callSid THEN entry ELSE store[c]]

\* Variant of DeleteEntry that deletes nothing.
DeleteEntryKeeps(store, callSid) == store

\* Variant of DeleteEntry that resets the whole store.
DeleteEntryClearsStore(store, callSid) == [c \in {} |-> NewEntry]

\* delete conversationState[callSid]
DeleteEntry(store, callSid) ==
    [c \in (DOMAIN store) \ {callSid} |-> store[c]]

\* Variant of HistoryPush that inserts at the front (unshift).
HistoryUnshift(entry, role, content) ==
    [entry EXCEPT !.history = <<[role |-> role, content |-> content]>> \o @]

\* history.push({ role, content })
HistoryPush(entry, role, content) ==
    [entry EXCEPT !.history = Append(@, [role |-> role, content |-> content])]

\* Variant of MergeExtracted that replaces collectedData by the extraction.
MergeExtractedReplaces(entry, extractedData) ==
    [entry EXCEPT !.collectedData = extractedData]

\* Object.assign(entry.collectedData, extractedData)
MergeExtracted(entry, extractedData) ==
    [entry EXCEPT !.collectedData = ObjectAssign(@, extractedData)]

\* JSON.parse of the message content: throws on text that is no JSON.
JsonParseThrows(llm) == llm.kind = "garbage"

\* TwiML verbs.
Say(text) == [verb |-> "Say", text |-> text, action |-> ""]
Hangup == [verb |-> "Hangup", text |-> "", action |-> ""]
Gather(text) == [verb |-> "Gather", text |-> text, action |-> "/voice"]

\* Variants of the documents: an apology that gathers again, and a gather
\* that also hangs up.
ApologyTwimlGathers ==
    <<Gather("I apologize, but I encountered an error. Please try again later.")>>
GatherTwimlThenHangup(text) == <<Gather(text), Hangup>>

\* The three documents the handler sends.
ApologyText == "I apologize, but I encountered an error. Please try again later."
ApologyTwiml == <<Say(ApologyText), Hangup>>
GatherTwiml(text) == <<Gather(text)>>
HangupTwiml(text) == <<Say(text), Hangup>>

\* const values = [data.full_name, phoneNumber, data.address, data.health_condition]
SaveValues(phoneNumber, data) ==
    <<Get(data, "full_name"), phoneNumber, Get(data, "address"),
      Get(data, "health_condition")>>

\* ---------------------------------------------------------------- actions
Init ==
    /\ conversationState = [c \in {} |-> NewEntry]
    /\ turns = [t \in TurnIds |-> IdleTurn]
    /\ dbCalls = <<>>
    /\ initiations = [i \in InitiationIds |-> IdleInitiation]
    /\ twilioCalls = <<>>

\* Variant of StoreAfterStart without the test of line 48: every delivery
\* starts from a fresh entry.
StoreAfterStartAlwaysCreates(store, callSid, userInput) ==
    LET created == PutEntry(store, callSid, NewEntry)
    IN  IF userInput # ""
        THEN PutEntry(created, callSid,
                      HistoryPush(created[callSid], "user", userInput))
        ELSE created

\* Variant of StoreAfterStart without the test of line 52: the utterance is
\* pushed even when it is empty.
StoreAfterStartPushesEmpty(store, callSid, userInput) ==
    LET created == IF HasEntry(store, callSid) THEN store
                   ELSE PutEntry(store, callSid, NewEntry)
    IN  PutEntry(created, callSid,
                 HistoryPush(created[callSid], "user", userInput))

\* The store after the fetch-or-create and the user push of lines 48-54.
StoreAfterStart(store, callSid, userInput) ==
    LET created == IF HasEntry(store, callSid) THEN store
                   ELSE PutEntry(store, callSid, NewEntry)
    IN  IF userInput # ""
        THEN PutEntry(created, callSid,
                      HistoryPush(created[callSid], "user", userInput))
        ELSE created

\* The system prompt of lines 89-102 and the text around the data in the
\* reminder of line 109.
SystemPrompt == "You are 'Asha', a friendly voice agent ..."
ReminderText == "Current collected data: ${json}. Now, determine the next question ..."

\* JSON.stringify(state.collectedData): the text of the object as it is at
\* the call.
JsonStringify(obj) == [json |-> obj]

\* Variant of LlmMessages that sends the last history entry only.
LlmMessagesLastOnly(state) ==
    <<[role |-> "system", content |-> SystemPrompt]>>
    \o (IF state.history = <<>> THEN <<>>
        ELSE <<state.history[Len(state.history)]>>)
    \o <<[role |-> "system",
          content |-> [text |-> ReminderText,
                       data |-> JsonStringify(state.collectedData)]]>>

\* The messages of lines 106-110, built from the entry when getLlmResponse
\* is called: the system prompt, the history, the reminder with the data.
LlmMessages(state) ==
    <<[role |-> "system", content |-> SystemPrompt]>>
    \o state.history
    \o <<[role |-> "system",
          content |-> [text |-> ReminderText,
                       data |-> JsonStringify(state.collectedData)]]>>

\* Variant of HeldByPending in which the collaborator calls are synchronous:
\* a delivery waits as long as a call of another delivery is pending.
HeldByPendingOfOthers(t) ==
    \E u \in TurnIds \ {t} : turns[u].pc \in {"llm", "db"}

\* Whether a segment of delivery t has to wait for a pending collaborator
\* call of another delivery: the awaits of lines 57 and 66 hand control
\* back to the event loop, so it never has.
HeldByPending(t) == FALSE

\* Lines 43-57: a webhook arrives; the handler runs up to the await of
\* getLlmResponse.
VoiceStart(t, callSid, userInput, to) ==
    /\ ~HeldByPending(t)
    /\ turns[t].pc = "idle"
    /\ \A u \in TurnIds : u < t => turns[u].pc # "idle"
    /\ conversationState' = StoreAfterStart(conversationState, callSid, userInput)
    /\ turns' = [turns EXCEPT ![t] =
                    [@ EXCEPT !.pc = "llm", !.CallSid = callSid,
                              !.SpeechResult = userInput, !.To = to,
                              !.request = LlmMessages(
                                  StoreAfterStart(conversationState, callSid,
                                                  userInput)[callSid])]]
    /\ UNCHANGED <<dbCalls, initiations, twilioCalls>>

\* Which error, if any, the try block raises once the completion call has
\* settled with llm: the rejection, the SyntaxError of JSON.parse, or a
\* TypeError (reading extractedData of null, or collectedData of a store
\* entry that is gone).
TryError(store, callSid, llm) ==
    IF llm.kind = "reject" THEN "llm"
    ELSE IF JsonParseThrows(llm) THEN "parse"
    ELSE IF llm.kind = "null" THEN "type"
    ELSE IF ~HasEntry(store, callSid) THEN "type"
    ELSE "none"

\* Variant of CatchStore in which the catch block records its apology in the
\* history.
CatchStoreAppendsApology(store, callSid) ==
    IF HasEntry(store, callSid)
    THEN PutEntry(store, callSid,
                  HistoryPush(store[callSid], "assistant", "I apologize"))
    ELSE store

\* Variant of CatchStore in which the catch block deletes the entry.
CatchStoreDeletes(store, callSid) == DeleteEntry(store, callSid)

\* The store after the catch block of lines 76-80: it deletes nothing.
CatchStore(store, callSid) == store

\* Variant of IsComplete that tests the response object itself.
IsCompleteAlways(responseData) == TRUE

\* if (responseData.isComplete), line 65.
IsComplete(responseData) == responseData.isComplete

\* Variant of EntryAfterResponse in which the merge of line 60 is left to
\* after the persistence call.
EntryAfterResponseNoMerge(entry, responseData) ==
    HistoryPush(entry, "assistant", responseData.responseText)

\* Lines 60-61 on the entry.
EntryAfterResponse(entry, responseData) ==
    HistoryPush(MergeExtracted(entry, responseData.extractedData),
                "assistant", responseData.responseText)

\* Lines 57-66 and 70-83: the completion call settles.
VoiceAfterLlm(t, llm) ==
    LET callSid == turns[t].CallSid
        err == TryError(conversationState, callSid, llm)
        entry == EntryAfterResponse(conversationState[callSid], llm)
    IN
    /\ ~HeldByPending(t)
    /\ turns[t].pc = "llm"
    /\ UNCHANGED <<initiations, twilioCalls>>
    /\ IF err # "none"
       THEN \* catch: lines 76-83
            /\ turns' = [turns EXCEPT ![t] =
                            [@ EXCEPT !.pc = "done", !.request = <<>>, !.llm = llm,
                                      !.error = err,
                                      !.res = ApologyTwiml]]
            /\ conversationState' = CatchStore(conversationState, callSid)
            /\ UNCHANGED dbCalls
       ELSE /\ conversationState' = PutEntry(conversationState, callSid, entry)
            /\ IF IsComplete(llm)
               THEN \* line 66: savePatientData runs up to await pool.query
                    /\ dbCalls' = Append(dbCalls,
                                    [turn |-> t,
                                     values |-> SaveValues(turns[t].To,
                                                           entry.collectedData)])
                    /\ turns' = [turns EXCEPT ![t] =
                                    [@ EXCEPT !.pc = "db", !.request = <<>>, !.llm = llm,
                                              !.saved = "pending"]]
               ELSE \* lines 71-75, 82-83
                    /\ turns' = [turns EXCEPT ![t] =
                                    [@ EXCEPT !.pc = "done", !.request = <<>>,
                                              !.llm = llm,
                                              !.res = GatherTwiml(llm.responseText)]]
                    /\ UNCHANGED dbCalls

\* Variant of SavePatientDataThrows without the try/catch.
SavePatientDataRethrows(ok) == ~ok

\* Whether savePatientData throws to its caller when pool.query settles
\* with ok: its try/catch of lines 127-132 logs a failure and returns.
SavePatientDataThrows(ok) == FALSE

\* Lines 127-132 and 67-69, 82-83: pool.query settles; savePatientData logs
\* either outcome and the handler goes on after its await.
VoiceAfterSave(t, ok) ==
    /\ ~HeldByPending(t)
    /\ turns[t].pc = "db"
    /\ IF SavePatientDataThrows(ok)
       THEN \* catch: lines 76-83
            /\ conversationState' = CatchStore(conversationState, turns[t].CallSid)
            /\ turns' = [turns EXCEPT ![t] =
                            [@ EXCEPT !.pc = "done", !.saved = "error",
                                      !.error = "db", !.res = ApologyTwiml]]
       ELSE /\ conversationState' = DeleteEntry(conversationState, turns[t].CallSid)
            /\ turns' = [turns EXCEPT ![t] =
                            [@ EXCEPT !.pc = "done",
                                      !.saved = IF ok THEN "ok" ELSE "error",
                                      !.res = HangupTwiml(turns[t].llm.responseText)]]
    /\ UNCHANGED <<dbCalls, initiations, twilioCalls>>

Next ==
    \/ \E t \in TurnIds, c \in CallSids, u \in SpeechResults, to \in ToNumbers :
          VoiceStart(t, c, u, to)
    \/ \E t \in TurnIds, llm \in LlmOutcomes : VoiceAfterLlm(t, llm)
    \/ \E t \in TurnIds, ok \in BOOLEAN : VoiceAfterSave(t, ok)

Spec == Init /\ [][Next]_vars

\* The shape of the state: the store maps call identifiers to entries of a
\* history of {role, content} and a collectedData object; a delivery is
\* idle, awaiting the completion call, awaiting pool.query, or done.
TypeOK ==
    /\ DOMAIN conversationState \subseteq CallSids
    /\ \A c \in DOMAIN conversationState :
          /\ DOMAIN conversationState[c] = {"history", "collectedData"}
          /\ \A i \in DOMAIN conversationState[c].history :
                conversationState[c].history[i].role \in {"user", "assistant"}
    /\ \A t \in TurnIds :
          /\ turns[t].pc \in {"idle", "llm", "db", "done", "rejected"}
          /\ turns[t].pc # "idle" =>
                /\ turns[t].CallSid \in CallSids \cup ObjectPrototypeKeys
                /\ turns[t].SpeechResult \in SpeechResults
                /\ turns[t].To \in ToNumbers
          /\ (turns[t].res # <<>>) = (turns[t].pc = "done")
          /\ (turns[t].request # <<>>) = (turns[t].pc = "llm")
    /\ \A i \in DOMAIN dbCalls : dbCalls[i].turn \in TurnIds
    /\ \A i \in InitiationIds :
          /\ initiations[i].pc \in {"idle", "create", "done"}
          /\ initiations[i].status \in {0, 200, 400, 500}
          /\ (initiations[i].status # 0) = (initiations[i].pc = "done")
    /\ \A k \in DOMAIN twilioCalls : twilioCalls[k].req \in InitiationIds

\* ------------------------------------------------- one turn at a time
\* The telephony transport as the calls' only client: it delivers the next
\* webhook of a call only after the previous directive of that call was a
\* gather, so a call has no two deliveries in flight and none after a hangup.
InFlight(callSid) ==
    \E t \in TurnIds : turns[t].CallSid = callSid /\ turns[t].pc \in {"llm", "db"}

HungUp(callSid) ==
    \E t \in TurnIds :
        /\ turns[t].CallSid = callSid
        /\ turns[t].pc = "done"
        /\ \E i \in DOMAIN turns[t].res : turns[t].res[i].verb = "Hangup"

VoiceStartInTurn(t, callSid, userInput, to) ==
    /\ ~InFlight(callSid)
    /\ ~HungUp(callSid)
    /\ VoiceStart(t, callSid, userInput, to)

NextInTurn ==
    \/ \E t \in TurnIds, c \in CallSids, u \in SpeechResults, to \in ToNumbers :
          VoiceStartInTurn(t, c, u, to)
    \/ \E t \in TurnIds, llm \in LlmOutcomes : VoiceAfterLlm(t, llm)
    \/ \E t \in TurnIds, ok \in BOOLEAN : VoiceAfterSave(t, ok)

SpecInTurn == Init /\ [][NextInTurn]_vars

\* ------------------------------------------- any CallSid in the body
\* conversationState is a plain object (line 40), so for a CallSid that
\* names an inherited property, conversationState[callSid] is the inherited
\* value: truthy in the test of line 48, and without a history or a
\* collectedData.
Inherited(callSid) == callSid \in ObjectPrototypeKeys

\* Lines 43-57 and 76-83 for such a CallSid. Line 48 creates nothing. With
\* an utterance, line 53 calls push on undefined: the TypeError is raised
\* outside the try block, the handler's promise rejects and line 83 is never
\* reached. Without one, getLlmResponse throws at line 108 when it spreads
\* the undefined history, before any request is sent: its promise is
\* rejected already, and the catch block of lines 76-80 runs with no other
\* handler in between.
VoiceStartInherited(t, callSid, userInput, to) ==
    /\ ~HeldByPending(t)
    /\ Inherited(callSid)
    /\ turns[t].pc = "idle"
    /\ \A u \in TurnIds : u < t => turns[u].pc # "idle"
    /\ IF userInput # ""
       THEN turns' = [turns EXCEPT ![t] =
                         [@ EXCEPT !.pc = "rejected", !.CallSid = callSid,
                                   !.SpeechResult = userInput, !.To = to,
                                   !.error = "type"]]
       ELSE turns' = [turns EXCEPT ![t] =
                         [@ EXCEPT !.pc = "done", !.CallSid = callSid,
                                   !.SpeechResult = userInput, !.To = to,
                                   !.error = "type", !.res = ApologyTwiml]]
    /\ conversationState' = CatchStore(conversationState, callSid)
    /\ UNCHANGED <<dbCalls, initiations, twilioCalls>>

NextAnySid ==
    \/ \E t \in TurnIds, c \in CallSids, u \in SpeechResults, to \in ToNumbers :
          VoiceStart(t, c, u, to)
    \/ \E t \in TurnIds, c \in ObjectPrototypeKeys, u \in SpeechResults,
          to \in ToNumbers :
          VoiceStartInherited(t, c, u, to)
    \/ \E t \in TurnIds, llm \in LlmOutcomes : VoiceAfterLlm(t, llm)
    \/ \E t \in TurnIds, ok \in BOOLEAN : VoiceAfterSave(t, ok)

SpecAnySid == Init /\ [][NextAnySid]_vars

\* ------------------------------------------------------ /initiate-call
\* Variant of FieldsMissing that tests the phone number alone.
FieldsMissingPhoneOnly(phoneNumber, ngrokUrl) == phoneNumber = ""

\* !phoneNumber || !ngrokUrl, line 141.
FieldsMissing(phoneNumber, ngrokUrl) == phoneNumber = "" \/ ngrokUrl = ""

\* const webhookUrl = `${ngrokUrl}/voice`, line 146.
WebhookUrl(ngrokUrl) == ngrokUrl \o "/voice"

\* The responses of the endpoint, lines 142, 153 and 156.
Response400 ==
    [status |-> 400, message |-> "Both phoneNumber and ngrokUrl are required.",
     callSid |-> "", error |-> ""]
Response200(sid) ==
    [status |-> 200, message |-> "Call has been successfully initiated!",
     callSid |-> sid, error |-> ""]
Response500(message) ==
    [status |-> 500, message |-> "Failed to initiate call.",
     callSid |-> "", error |-> message]

\* An initiation with its response sent.
Responded(initiation, response) ==
    [initiation EXCEPT !.pc = "done", !.status = response.status,
                       !.message = response.message,
                       !.callSid = response.callSid, !.error = response.error]

\* Lines 137-151: a request arrives; the handler answers 400 or runs up to
\* the await of client.calls.create.
InitiateCallStart(i, phoneNumber, ngrokUrl) ==
    /\ initiations[i].pc = "idle"
    /\ \A j \in InitiationIds : j < i => initiations[j].pc # "idle"
    /\ IF FieldsMissing(phoneNumber, ngrokUrl)
       THEN /\ initiations' = [initiations EXCEPT ![i] =
                  Responded([@ EXCEPT !.phoneNumber = phoneNumber,
                                      !.ngrokUrl = ngrokUrl], Response400)]
            /\ UNCHANGED twilioCalls
       ELSE /\ initiations' = [initiations EXCEPT ![i] =
                  [@ EXCEPT !.pc = "create", !.phoneNumber = phoneNumber,
                            !.ngrokUrl = ngrokUrl]]
            /\ twilioCalls' = Append(twilioCalls,
                  [req |-> i, url |-> WebhookUrl(ngrokUrl), to |-> phoneNumber,
                   from |-> TwilioPhoneNumber])
    /\ UNCHANGED <<conversationState, turns, dbCalls>>

\* Lines 151-157: client.calls.create settles.
InitiateCallAfterCreate(i, outcome) ==
    /\ initiations[i].pc = "create"
    /\ initiations' = [initiations EXCEPT ![i] =
          Responded(@, IF outcome.ok THEN Response200(outcome.sid)
                       ELSE Response500(outcome.message))]
    /\ UNCHANGED <<conversationState, turns, dbCalls, twilioCalls>>

\* The server with both endpoints, the webhooks being those of one call
\* delivered in turn.
NextInitiate ==
    \/ \E i \in InitiationIds, p \in PhoneNumbers, n \in NgrokUrls :
          InitiateCallStart(i, p, n)
    \/ \E i \in InitiationIds, o \in CreateOutcomes : InitiateCallAfterCreate(i, o)
    \/ \E t \in TurnIds, u \in SpeechResults :
          VoiceStartInTurn(t, "CA1", u, "+911")
    \/ \E t \in TurnIds, llm \in LlmOutcomes : VoiceAfterLlm(t, llm)
    \/ \E t \in TurnIds, ok \in BOOLEAN : VoiceAfterSave(t, ok)

SpecInitiate == Init /\ [][NextInitiate]_vars

\* ================================================================ claims
\* The step in which delivery t sends its response (line 83).
Emits(t) == turns[t].pc # "done" /\ turns'[t].pc = "done"

\* The step in which the completion call of delivery t settles.
LlmSettles(t) == turns[t].pc = "llm" /\ turns'[t].pc # "llm"

\* Some other delivery for the same call has run the isComplete branch to
\* its end.
RemovedByOther(t) ==
    \E u \in TurnIds \ {t} :
        /\ turns[u].CallSid = turns[t].CallSid
        /\ turns[u].pc = "done"
        /\ turns[u].saved \in {"ok", "error"}

\* C1: when a turn whose completion response has isComplete=true sends its
\* directive, the store holds no entry for its call identifier.
C1_NoEntryWhenCompleteTurnEmits ==
    [][\A t \in TurnIds :
          (Emits(t) /\ turns'[t].llm.kind = "object" /\ turns'[t].llm.isComplete)
             => ~HasEntry(conversationState', turns'[t].CallSid)]_vars

C1_Witness ==
    \E t \in TurnIds :
        /\ turns[t].pc = "done"
        /\ turns[t].llm.isComplete
        /\ turns[t].res = HangupTwiml(turns[t].llm.responseText)
        /\ Len(turns[t].CallSid) > 0
        /\ ~HasEntry(conversationState, turns[t].CallSid)

\* C2 as stated: when the completion call fails or its content is no JSON,
\* the directive is the apology with a hangup and the store still holds an
\* entry for the call identifier after the turn.
C2_EntryKeptAfterError ==
    [][\A t \in TurnIds :
          (LlmSettles(t) /\ turns'[t].llm.kind \in {"reject", "garbage"})
             => /\ turns'[t].pc = "done"
                /\ turns'[t].res = <<Say(ApologyText), Hangup>>
                /\ \A i \in DOMAIN turns'[t].res : turns'[t].res[i].verb # "Gather"
                /\ HasEntry(conversationState', turns'[t].CallSid)]_vars

\* C2 as amended: the directive is the apology with a hangup, the turn
\* leaves the store as it found it when the completion call settled, and the
\* entry is missing after the turn only if another delivery for the same
\* call identifier completed and removed it meanwhile.
C2_ErrorTurnLeavesStore ==
    [][\A t \in TurnIds :
          (LlmSettles(t) /\ turns'[t].llm.kind \in {"reject", "garbage"})
             => /\ turns'[t].pc = "done"
                /\ turns'[t].res = <<Say(ApologyText), Hangup>>
                /\ \A i \in DOMAIN turns'[t].res : turns'[t].res[i].verb # "Gather"
                /\ conversationState' = conversationState
                /\ \/ HasEntry(conversationState', turns'[t].CallSid)
                   \/ RemovedByOther(t)]_vars

C2_Witness ==
    \E t \in TurnIds :
        /\ turns[t].pc = "done"
        /\ turns[t].llm.kind = "garbage"
        /\ turns[t].res = ApologyTwiml
        /\ HasEntry(conversationState, turns[t].CallSid)
        /\ Len(conversationState[turns[t].CallSid].history) > 0

\* C3 as stated: a parsed response with isComplete=false gives the gather
\* directive back to /voice, no persistence call, and the entry stays.
C3_GatherOnIncomplete ==
    [][\A t \in TurnIds :
          (LlmSettles(t) /\ turns'[t].llm.kind = "object" /\ ~turns'[t].llm.isComplete)
             => /\ turns'[t].pc = "done"
                /\ turns'[t].res = <<Gather(turns'[t].llm.responseText)>>
                /\ turns'[t].res[1].action = "/voice"
                /\ dbCalls' = dbCalls
                /\ HasEntry(conversationState', turns'[t].CallSid)]_vars

\* C3 as amended: the same, for a turn whose entry is still in the store
\* when the response arrives.
C3_GatherOnIncompleteWithEntry ==
    [][\A t \in TurnIds :
          (/\ LlmSettles(t)
           /\ turns'[t].llm.kind = "object"
           /\ ~turns'[t].llm.isComplete
           /\ HasEntry(conversationState, turns[t].CallSid))
             => /\ turns'[t].pc = "done"
                /\ turns'[t].res = <<Gather(turns'[t].llm.responseText)>>
                /\ turns'[t].res[1].action = "/voice"
                /\ \A i \in DOMAIN turns'[t].res : turns'[t].res[i].verb # "Hangup"
                /\ dbCalls' = dbCalls
                /\ HasEntry(conversationState', turns'[t].CallSid)]_vars

C3_Witness ==
    \E t \in TurnIds :
        /\ turns[t].pc = "done"
        /\ turns[t].llm.kind = "object"
        /\ ~turns[t].llm.isComplete
        /\ turns[t].res = GatherTwiml(turns[t].llm.responseText)
        /\ dbCalls = <<>>
        /\ HasEntry(conversationState, turns[t].CallSid)

\* The persistence calls issued by deliveries for callSid.
DbCallsOf(callSid) ==
    {i \in DOMAIN dbCalls : turns[dbCalls[i].turn].CallSid = callSid}

\* C4: with one turn at a time, a call invokes the persistence collaborator
\* at most once, only from a turn whose response has isComplete=true, and
\* exactly once as soon as such a turn has got its response.
C4_PersistOnceOnCompletion ==
    \A c \in CallSids :
        /\ Cardinality(DbCallsOf(c)) <= 1
        /\ \A i \in DbCallsOf(c) :
              /\ turns[dbCalls[i].turn].llm.kind = "object"
              /\ turns[dbCalls[i].turn].llm.isComplete
              /\ \A u \in TurnIds :
                    (u < dbCalls[i].turn /\ turns[u].CallSid = c)
                        => (turns[u].pc = "done" /\ ~turns[u].llm.isComplete)
        /\ \A t \in TurnIds :
              (/\ turns[t].CallSid = c
               /\ turns[t].llm.kind = "object"
               /\ turns[t].llm.isComplete)
                 => \E i \in DbCallsOf(c) : dbCalls[i].turn = t

C4_Witness ==
    \E t, u \in TurnIds :
        /\ u < t
        /\ turns[u].CallSid = turns[t].CallSid
        /\ turns[u].pc = "done"
        /\ ~turns[u].llm.isComplete
        /\ turns[t].pc = "done"
        /\ turns[t].llm.isComplete
        /\ Cardinality(DbCallsOf(turns[t].CallSid)) = 1

\* The deliveries for callSid up to delivery t whose response carried
\* field key in its extractedData.
ExtractedIn(callSid, key, t) ==
    {u \in TurnIds :
        /\ u <= t
        /\ turns[u].CallSid = callSid
        /\ turns[u].llm.kind = "object"
        /\ key \in DOMAIN turns[u].llm.extractedData}

Latest(S) == CHOOSE u \in S : \A v \in S : v <= u

\* The latest value extracted for key over the turns of the call up to t.
LatestExtracted(callSid, key, t) ==
    IF ExtractedIn(callSid, key, t) = {} THEN Undefined
    ELSE turns[Latest(ExtractedIn(callSid, key, t))].llm.extractedData[key]

\* C5: with one turn at a time, the upsert gets four values: the latest
\* full_name extracted in the call, the To of the completing turn, the
\* latest address and the latest health_condition; a field never extracted
\* is undefined, and age and gender are not among them.  While the call is
\* pending they are the values of the entry's collectedData.
C5_UpsertValues ==
    \A i \in DOMAIN dbCalls :
        LET t == dbCalls[i].turn
            c == turns[t].CallSid
            v == dbCalls[i].values
        IN  /\ Len(v) = 4
            /\ v[1] = LatestExtracted(c, "full_name", t)
            /\ v[2] = turns[t].To
            /\ v[3] = LatestExtracted(c, "address", t)
            /\ v[4] = LatestExtracted(c, "health_condition", t)
            /\ \A k \in {"age", "gender"}, j \in 1..Len(v) :
                  LatestExtracted(c, k, t) # Undefined
                     => v[j] # LatestExtracted(c, k, t)
            /\ turns[t].pc = "db" =>
                  /\ HasEntry(conversationState, c)
                  /\ v[1] = Get(conversationState[c].collectedData, "full_name")
                  /\ v[3] = Get(conversationState[c].collectedData, "address")
                  /\ v[4] = Get(conversationState[c].collectedData, "health_condition")

\* A completing turn that overwrote a name of an earlier turn, came with
\* another To than that turn, and never got an address.
C5_Witness ==
    \E i \in DOMAIN dbCalls, u \in TurnIds :
        LET t == dbCalls[i].turn IN
        /\ u < t
        /\ turns[u].CallSid = turns[t].CallSid
        /\ Get(turns[u].llm.extractedData, "full_name") = "Ram"
        /\ turns[u].To # turns[t].To
        /\ dbCalls[i].values = <<"Sita", turns[t].To, Undefined, Undefined>>

\* Delivery t takes a step.
Steps(t) == turns'[t] # turns[t]

\* C6: no step of a delivery for one call identifier creates, removes or
\* changes the entry of another call identifier.
C6_OtherCallsUntouched ==
    [][\A t \in TurnIds, c \in CallSids :
          (Steps(t) /\ turns'[t].CallSid # c)
             => /\ HasEntry(conversationState', c) = HasEntry(conversationState, c)
                /\ HasEntry(conversationState, c)
                      => conversationState'[c] = conversationState[c]]_vars

\* Both calls have an entry with history and one of them has completed a
\* step after the other's entry was there.
C6_Witness ==
    /\ \A c \in CallSids :
          /\ HasEntry(conversationState, c)
          /\ Len(conversationState[c].history) > 0
    /\ \E t, u \in TurnIds :
          /\ turns[t].CallSid # turns[u].CallSid
          /\ turns[t].pc = "done"
          /\ turns[u].pc = "done"

\* C7: an entry leaves the store only in the step in which a delivery for
\* its call identifier, with isComplete=true, returns from the persistence
\* call; so a call none of whose deliveries has done that keeps its entry.
C7_RemovedOnlyOnCompletion ==
    [][/\ \A c \in CallSids :
             (HasEntry(conversationState, c) /\ ~HasEntry(conversationState', c))
                => \E t \in TurnIds :
                      /\ turns[t].CallSid = c
                      /\ turns[t].pc = "db"
                      /\ turns'[t].pc = "done"
                      /\ turns[t].llm.isComplete
       /\ \A c \in CallSids :
             (/\ \E t \in TurnIds : turns'[t].CallSid = c
              /\ \A t \in TurnIds :
                    turns'[t].CallSid = c
                       => ~(turns'[t].pc = "done" /\ turns'[t].llm.isComplete))
                => HasEntry(conversationState', c)]_vars

\* A call whose turns ended in a gather and in the error branch, and whose
\* entry is still there.
C7_Witness ==
    \E t, u \in TurnIds :
        /\ turns[t].CallSid = turns[u].CallSid
        /\ turns[t].pc = "done"
        /\ turns[t].res = GatherTwiml(turns[t].llm.responseText)
        /\ turns[u].pc = "done"
        /\ turns[u].res = ApologyTwiml
        /\ HasEntry(conversationState, turns[t].CallSid)

\* C8: when the persistence call of a turn settles, with success or with
\* failure, the turn says responseText and hangs up, not the apology, and
\* its entry is gone.
C8_PersistenceFailureSwallowed ==
    [][\A t \in TurnIds :
          (turns[t].pc = "db" /\ turns'[t].pc # "db")
             => /\ turns'[t].pc = "done"
                /\ turns'[t].saved \in {"ok", "error"}
                /\ turns'[t].error = "none"
                /\ turns'[t].res = <<Say(turns[t].llm.responseText), Hangup>>
                /\ turns'[t].res # ApologyTwiml
                /\ ~HasEntry(conversationState', turns[t].CallSid)]_vars

C8_Witness ==
    \E t \in TurnIds :
        /\ turns[t].pc = "done"
        /\ turns[t].saved = "error"
        /\ turns[t].res = HangupTwiml(turns[t].llm.responseText)
        /\ ~HasEntry(conversationState, turns[t].CallSid)

\* C9: with one turn at a time, when a turn with a non-empty utterance gets
\* through lines 60-61, the history of its call ends with the user entry of
\* that utterance and the assistant entry of that turn's responseText.
C9_UserThenAssistant ==
    [][\A t \in TurnIds :
          (/\ LlmSettles(t)
           /\ turns'[t].error = "none"
           /\ turns[t].SpeechResult # "")
             => LET h == conversationState'[turns[t].CallSid].history
                    n == Len(h)
                IN  /\ HasEntry(conversationState', turns[t].CallSid)
                    /\ n >= 2
                    /\ h[n - 1] = [role |-> "user", content |-> turns[t].SpeechResult]
                    /\ h[n] = [role |-> "assistant",
                               content |-> turns'[t].llm.responseText]]_vars

\* The second turn of a call has appended its pair after the first turn's.
C9_Witness ==
    \E t \in TurnIds :
        /\ turns[t].pc = "done"
        /\ turns[t].SpeechResult # ""
        /\ turns[t].error = "none"
        /\ HasEntry(conversationState, turns[t].CallSid)
        /\ Len(conversationState[turns[t].CallSid].history) >= 3

\* h2 is h1 or h1 with one entry appended.
AppendedAtMostOne(h1, h2) ==
    /\ Len(h2) \in {Len(h1), Len(h1) + 1}
    /\ \A i \in 1..Len(h1) : h2[i] = h1[i]

\* C10: while an entry stays in the store, a step neither drops a field of
\* its collectedData nor removes or reorders an entry of its history: the
\* history is unchanged or longer by one entry at its end.
C10_EntryOnlyGrows ==
    [][\A c \in CallSids :
          (HasEntry(conversationState, c) /\ HasEntry(conversationState', c))
             => /\ DOMAIN conversationState[c].collectedData
                      \subseteq DOMAIN conversationState'[c].collectedData
                /\ AppendedAtMostOne(conversationState[c].history,
                                     conversationState'[c].history)]_vars

\* An entry whose name was overwritten and that got a further field.
C10_Witness ==
    \E c \in CallSids, t, u \in TurnIds :
        /\ HasEntry(conversationState, c)
        /\ t < u
        /\ turns[t].CallSid = c
        /\ turns[u].CallSid = c
        /\ Get(turns[t].llm.extractedData, "full_name") = "Ram"
        /\ conversationState[c].collectedData = Obj2("full_name", "Sita", "age", "30")
        /\ Len(conversationState[c].history) >= 3

\* The step in which delivery t arrives and runs lines 43-57.
Starts(t) == turns[t].pc = "idle" /\ turns'[t].pc # "idle"

\* The history h after the user push of a delivery with utterance u.
WithUtterance(h, u) ==
    IF u = "" THEN h ELSE h \o <<[role |-> "user", content |-> u]>>

\* C11: the fetch-or-create of a delivery makes the empty entry only when
\* the store has none for its call identifier; an entry that is there is
\* taken as it is, with its collectedData and its history (to which only
\* the utterance is added), and the other entries stay.
C11_FetchOrCreate ==
    [][\A t \in TurnIds :
          Starts(t) =>
             LET c == turns'[t].CallSid
                 u == turns'[t].SpeechResult
             IN  /\ HasEntry(conversationState', c)
                 /\ DOMAIN conversationState' = DOMAIN conversationState \cup {c}
                 /\ conversationState'[c].collectedData =
                       (IF HasEntry(conversationState, c)
                        THEN conversationState[c].collectedData
                        ELSE [k \in {} |-> ""])
                 /\ conversationState'[c].history =
                       WithUtterance(IF HasEntry(conversationState, c)
                                     THEN conversationState[c].history
                                     ELSE <<>>, u)]_vars

\* A second delivery of a call has started on the entry its first delivery
\* left: the first answer is still in the history and in collectedData.
C11_Witness ==
    \E t, u \in TurnIds :
        /\ t < u
        /\ turns[t].CallSid = turns[u].CallSid
        /\ turns[t].pc = "done"
        /\ turns[t].llm.kind = "object"
        /\ turns[u].pc = "llm"
        /\ turns[u].SpeechResult # ""
        /\ HasEntry(conversationState, turns[u].CallSid)
        /\ conversationState[turns[u].CallSid].collectedData = turns[t].llm.extractedData
        /\ Len(conversationState[turns[u].CallSid].history) = 2
        /\ conversationState[turns[u].CallSid].history[1].role = "assistant"

\* Delivery t is the first one of its call.
FirstOfCall(t) ==
    \A u \in TurnIds : u < t => turns[u].CallSid # turns[t].CallSid

\* Delivery t is the only one that has arrived for its call so far.
OnlyOfCall(t) ==
    \A u \in TurnIds \ {t} : turns[u].CallSid # turns[t].CallSid

\* C12 as stated: the first turn of a call, with an empty SpeechResult and
\* a response with isComplete=false, ends with the gather directive and an
\* entry whose history is the assistant entry alone.
C12_FirstTurnEmptySpeech ==
    [][\A t \in TurnIds :
          (/\ LlmSettles(t)
           /\ FirstOfCall(t)
           /\ turns[t].SpeechResult = ""
           /\ turns'[t].llm.kind = "object"
           /\ ~turns'[t].llm.isComplete)
             => /\ turns'[t].pc = "done"
                /\ turns'[t].res = <<Gather(turns'[t].llm.responseText)>>
                /\ HasEntry(conversationState', turns[t].CallSid)
                /\ conversationState'[turns[t].CallSid].history =
                      <<[role |-> "assistant",
                         content |-> turns'[t].llm.responseText]>>]_vars

\* C12 as amended: the same, when no further delivery for the call arrives
\* before the first turn has its response.
C12_FirstTurnEmptySpeechAlone ==
    [][\A t \in TurnIds :
          (/\ LlmSettles(t)
           /\ OnlyOfCall(t)
           /\ turns[t].SpeechResult = ""
           /\ turns'[t].llm.kind = "object"
           /\ ~turns'[t].llm.isComplete)
             => /\ turns'[t].pc = "done"
                /\ turns'[t].res = <<Gather(turns'[t].llm.responseText)>>
                /\ HasEntry(conversationState', turns[t].CallSid)
                /\ conversationState'[turns[t].CallSid].history =
                      <<[role |-> "assistant",
                         content |-> turns'[t].llm.responseText]>>]_vars

C12_Witness ==
    \E t \in TurnIds :
        /\ turns[t].pc = "done"
        /\ FirstOfCall(t)
        /\ turns[t].SpeechResult = ""
        /\ turns[t].res = GatherTwiml("What is your name?")
        /\ HasEntry(conversationState, turns[t].CallSid)
        /\ Len(conversationState[turns[t].CallSid].history) = 1
        /\ conversationState[turns[t].CallSid].history[1].role = "assistant"

\* The client.calls.create invocations of request i.
TwilioCallsOf(i) == {k \in DOMAIN twilioCalls : twilioCalls[k].req = i}

\* C13: a request without phone number or without base URL is answered 400
\* and triggers no call; any other request triggers one call, with the base
\* URL followed by "/voice" as its webhook, and is answered 200 with the
\* call's sid or 500 with the error's message; the store is not touched.
C13_InitiateCall ==
    [][\A i \in InitiationIds :
          LET before == initiations[i]
              after == initiations'[i]
          IN
          /\ (before.pc = "idle" /\ after.pc # "idle") =>
                /\ conversationState' = conversationState
                /\ IF after.phoneNumber = "" \/ after.ngrokUrl = ""
                   THEN /\ after.pc = "done"
                        /\ after.status = 400
                        /\ twilioCalls' = twilioCalls
                   ELSE /\ after.pc = "create"
                        /\ after.status = 0
                        /\ Len(twilioCalls') = Len(twilioCalls) + 1
                        /\ twilioCalls'[Len(twilioCalls')].req = i
                        /\ twilioCalls'[Len(twilioCalls')].to = after.phoneNumber
                        /\ twilioCalls'[Len(twilioCalls')].url
                              = after.ngrokUrl \o "/voice"
                        /\ twilioCalls'[Len(twilioCalls')].url
                              = "https://asha.ngrok.io/voice"
          /\ (before.pc = "create" /\ after.pc # "create") =>
                /\ conversationState' = conversationState
                /\ twilioCalls' = twilioCalls
                /\ after.pc = "done"
                /\ \/ after.status = 200 /\ after.callSid = "CA1"
                   \/ after.status = 500 /\ after.error = "unreachable"
          /\ Cardinality({k \in DOMAIN twilioCalls' : twilioCalls'[k].req = i})
                = (IF after.pc = "idle" \/ after.status = 400 THEN 0 ELSE 1)]_vars

\* One request was answered 200 and another 400 or 500, while the store
\* held an entry.
C13_Witness ==
    \E i, j \in InitiationIds :
        /\ initiations[i].status = 200
        /\ initiations[i].callSid = "CA1"
        /\ Cardinality(TwilioCallsOf(i)) = 1
        /\ initiations[j].status = 500
        /\ initiations[j].error = "unreachable"
        /\ \E c \in CallSids :
              /\ HasEntry(conversationState, c)
              /\ Len(conversationState[c].history) > 0

\* C14: merging an extraction twice gives what merging it once gives, with
\* the fields of both and no others: for every collectedData d in the store
\* and every extraction e the completion service may return,
\* merge(merge(d, e), e) = merge(d, e); merged into {} twice, e gives e.
C14_MergeIdempotent ==
    \A c \in DOMAIN conversationState, o \in LlmOutcomes :
        LET d == conversationState[c].collectedData
            e == o.extractedData
            once == ObjectAssign(d, e)
            twice == ObjectAssign(once, e)
        IN  /\ twice = once
            /\ DOMAIN twice = (DOMAIN d) \cup (DOMAIN e)
            /\ d = e => twice = e
            /\ d = [k \in {} |-> ""] => twice = e

\* Two turns of a call have merged the same extraction, and collectedData
\* is that extraction.
C14_Witness ==
    \E t, u \in TurnIds :
        /\ t < u
        /\ turns[t].CallSid = turns[u].CallSid
        /\ turns[t].pc = "done"
        /\ turns[u].pc = "done"
        /\ turns[t].error = "none"
        /\ turns[u].error = "none"
        /\ turns[t].llm.extractedData = Obj1("full_name", "Ram")
        /\ turns[u].llm.extractedData = Obj1("full_name", "Ram")
        /\ HasEntry(conversationState, turns[t].CallSid)
        /\ conversationState[turns[t].CallSid].collectedData = Obj1("full_name", "Ram")

\* The first part of C15: in the step in which a response with
\* isComplete=true arrives, the extraction is merged, the assistant entry is
\* appended, and the persistence call is issued with the merged values; the
\* entry is in the store after that step.
MergedThenSaved(t) ==
    LET c == turns[t].CallSid
        e == turns'[t].llm.extractedData
        old == conversationState[c]
        new == conversationState'[c]
    IN  /\ HasEntry(conversationState', c)
        /\ DOMAIN new.collectedData = (DOMAIN old.collectedData) \cup (DOMAIN e)
        /\ \A k \in DOMAIN e : new.collectedData[k] = e[k]
        /\ \A k \in (DOMAIN old.collectedData) \ (DOMAIN e) :
              new.collectedData[k] = old.collectedData[k]
        /\ new.history = old.history \o
              <<[role |-> "assistant", content |-> turns'[t].llm.responseText]>>
        /\ Len(dbCalls') = Len(dbCalls) + 1
        /\ dbCalls'[Len(dbCalls')].turn = t
        /\ dbCalls'[Len(dbCalls')].values[1] = Get(new.collectedData, "full_name")
        /\ dbCalls'[Len(dbCalls')].values[3] = Get(new.collectedData, "address")

C16_ErrorTurnKeepsData ==
    [][\A t \in TurnIds :
          /\ Starts(t) =>
                LET c == turns'[t].CallSid IN
                /\ conversationState'[c].collectedData =
                      (IF HasEntry(conversationState, c)
                       THEN conversationState[c].collectedData
                       ELSE [k \in {} |-> ""])
                /\ conversationState'[c].history =
                      WithUtterance(IF HasEntry(conversationState, c)
                                    THEN conversationState[c].history
                                    ELSE <<>>, turns'[t].SpeechResult)
          /\ (LlmSettles(t) /\ turns'[t].llm.kind \in {"reject", "garbage"}) =>
                /\ turns'[t].pc = "done"
                /\ turns'[t].error \in {"llm", "parse"}
                /\ conversationState' = conversationState
                /\ dbCalls' = dbCalls]_vars

\* A failed turn of a call was followed by another delivery, which found
\* the data of the first turn, the utterance of the failed one and no
\* assistant entry for it.
C16_Witness ==
    \E t, u \in TurnIds :
        /\ t < u
        /\ turns[t].CallSid = turns[u].CallSid
        /\ turns[t].pc = "done"
        /\ turns[t].llm.kind = "garbage"
        /\ turns[t].SpeechResult = "ram"
        /\ turns[u].pc = "llm"
        /\ turns[u].SpeechResult = ""
        /\ HasEntry(conversationState, turns[t].CallSid)
        /\ conversationState[turns[t].CallSid].collectedData = [k \in {} |-> ""]
        /\ conversationState[turns[t].CallSid].history
              = <<[role |-> "user", content |-> "ram"]>>

\* Delivery t is suspended at the completion call or the persistence call.
Suspended(t) == turns[t].pc \in {"llm", "db"}

\* Delivery u is the next one to arrive.
NextToArrive(u) ==
    /\ turns[u].pc = "idle"
    /\ \A v \in TurnIds : v < u => turns[v].pc # "idle"

\* C17: while a delivery for one call identifier is suspended, every step
\* of a delivery for another call identifier can be taken: it can arrive,
\* its completion call can settle with any outcome, and its persistence
\* call can settle.
C17_SuspendedTurnBlocksNothing ==
    \A t, u \in TurnIds :
        (t # u /\ Suspended(t)) =>
            /\ NextToArrive(u) =>
                  \A c \in CallSids \ {turns[t].CallSid} :
                      ENABLED (\E sp \in SpeechResults, to \in ToNumbers :
                                  VoiceStart(u, c, sp, to))
            /\ (turns[u].pc = "llm" /\ turns[u].CallSid # turns[t].CallSid) =>
                  \A o \in LlmOutcomes : ENABLED VoiceAfterLlm(u, o)
            /\ (turns[u].pc = "db" /\ turns[u].CallSid # turns[t].CallSid) =>
                  \A ok \in BOOLEAN : ENABLED VoiceAfterSave(u, ok)

\* A delivery that arrived after another call's delivery was suspended has
\* run to its hangup directive while that one is still suspended.
C17_Witness ==
    \E t, u \in TurnIds :
        /\ t < u
        /\ turns[t].pc = "llm"
        /\ turns[u].CallSid # turns[t].CallSid
        /\ turns[u].pc = "done"
        /\ turns[u].saved \in {"ok", "error"}
        /\ turns[u].res = HangupTwiml("Thank you.")

\* C18: the request a delivery sends to the completion service is made in
\* the step of its arrival, from the entry as that step leaves it: the
\* system prompt, every history entry in order (the last one being the
\* utterance when it is not empty), and one reminder with the collectedData.
C18_CompletionRequest ==
    [][\A t \in TurnIds :
          Starts(t) =>
             LET c == turns'[t].CallSid
                 h == conversationState'[c].history
                 r == turns'[t].request
                 n == Len(r)
             IN  /\ turns'[t].pc = "llm"
                 /\ n = Len(h) + 2
                 /\ r[1] = [role |-> "system", content |-> SystemPrompt]
                 /\ \A i \in 1..Len(h) : r[i + 1] = h[i]
                 /\ r[n].role = "system"
                 /\ r[n].content.text = ReminderText
                 /\ r[n].content.data.json = conversationState'[c].collectedData
                 /\ turns'[t].SpeechResult # "" =>
                       r[n - 1] = [role |-> "user",
                                   content |-> turns'[t].SpeechResult]]_vars

\* The request of the second turn of a call is pending: it carries the
\* first answer, the new utterance and the data of the first turn.
C18_Witness ==
    \E t \in TurnIds :
        /\ turns[t].pc = "llm"
        /\ Len(turns[t].request) = 4
        /\ turns[t].request[2] = [role |-> "assistant", content |-> "What is your name?"]
        /\ turns[t].request[3] = [role |-> "user", content |-> "ram"]
        /\ turns[t].request[4].content.data.json = Obj1("full_name", "Ram")

\* The deliveries of a call that have arrived, and a call with exactly two
\* deliveries, t and u, both of which have emitted their directive.
DeliveriesOf(callSid) ==
    {t \in TurnIds : turns[t].pc # "idle" /\ turns[t].CallSid = callSid}

BothDone(callSid, t, u) ==
    /\ t # u
    /\ DeliveriesOf(callSid) = {t, u}
    /\ turns[t].pc = "done"
    /\ turns[u].pc = "done"

\* What a call leaves behind: its store entry, if any, and the number of
\* its persistence invocations.
NoStore == [c \in {} |-> NewEntry]
Left(store, callSid, db) ==
    [store |-> [c \in DOMAIN store \cap {callSid} |-> store[c]], db |-> db]

\* Delivery t run alone from start to end on what was left, with the
\* utterance and the collaborator results it had.
RunAlone(left, callSid, t) ==
    LET started == StoreAfterStart(left.store, callSid, turns[t].SpeechResult)
        llm == turns[t].llm
    IN  IF TryError(started, callSid, llm) # "none"
        THEN Left(CatchStore(started, callSid), callSid, left.db)
        ELSE LET merged == PutEntry(started, callSid,
                                    EntryAfterResponse(started[callSid], llm))
             IN  IF ~IsComplete(llm)
                 THEN Left(merged, callSid, left.db)
                 ELSE IF SavePatientDataThrows(turns[t].saved = "ok")
                 THEN Left(CatchStore(merged, callSid), callSid, left.db + 1)
                 ELSE Left(DeleteEntry(merged, callSid), callSid, left.db + 1)

\* t and then u, one after the other, on a call the store does not know.
OneAfterTheOther(callSid, t, u) ==
    RunAlone(RunAlone(Left(NoStore, callSid, 0), callSid, t), callSid, u)

Count(seq, m) == Cardinality({i \in DOMAIN seq : seq[i] = m})
SameEntries(h1, h2) ==
    /\ Len(h1) = Len(h2)
    /\ \A i \in DOMAIN h1 : Count(h1, h1[i]) = Count(h2, h1[i])

Directives ==
    {ApologyTwiml}
    \cup {GatherTwiml(llm.responseText) : llm \in LlmOutcomes}
    \cup {HangupTwiml(llm.responseText) : llm \in LlmOutcomes}

\* C20: a delivery is awaiting a collaborator call, which can settle
\* whatever way, or it has emitted its one directive, a speak+gather, a
\* speak+hangup or the apology+hangup; and a delivery whose completion call
\* settles when the entry of its call is gone emits the apology+hangup and
\* leaves the store as it is.
C20_EveryDeliveryEmitsOnce ==
    [][\A t \in TurnIds :
          /\ turns[t].pc = "llm" =>
                \A o \in LlmOutcomes : ENABLED VoiceAfterLlm(t, o)
          /\ turns[t].pc = "db" =>
                \A ok \in BOOLEAN : ENABLED VoiceAfterSave(t, ok)
          /\ Steps(t) =>
                /\ turns[t].pc # "done"
                /\ \/ turns'[t].pc \in {"llm", "db"} /\ turns'[t].res = <<>>
                   \/ turns'[t].pc = "done" /\ turns'[t].res \in Directives
                /\ (/\ LlmSettles(t)
                    /\ RemovedByOther(t)
                    /\ ~HasEntry(conversationState, turns[t].CallSid)) =>
                      /\ turns'[t].res = ApologyTwiml
                      /\ conversationState' = conversationState]_vars

====
